---------------------------- MODULE Spec2Model ----------------------------
(***************************************************************************)
(* A model of wcb_outflow: the contour geometry of outflow.py (haversine,  *)
(* contour_length, is_closed_contour, get_longest_closed_contour,          *)
(* increase_circuit_resolution, get_points, outflow_th, _bin_edges) and    *)
(* the circuit-integral arithmetic of calc.py (diff, equate_times,         *)
(* vorticity, potential_vorticity, get_cube_by_name).                      *)
(*                                                                         *)
(* Geometry.  A point is <<lon, lat>>.  All model points lie on the        *)
(* equator (lat = 0) and longitude is measured in kilometres of arc, that  *)
(* is in units of 1/6371 radian.  On the equator the haversine formula     *)
(* reduces to r * |dlon|, so in these units the great-circle distance in   *)
(* kilometres is the integer |lon2 - lon1| and the linear interpolation of *)
(* increase_circuit_resolution stays in the integers.                      *)
(***************************************************************************)
EXTENDS Integers, Sequences, FiniteSets

VARIABLES
    \* increase_circuit_resolution(points, resolution)
    points,        \* the local array `points` (rebound by np.insert)
    n,             \* the loop index n (0-based, as in the code)
    resolution,    \* the target spacing in km
    circuit,       \* the caller's array: the argument as it was passed in
    rpc,           \* "idle" | "loop" | "done"
    \* get_longest_closed_contour(contours, threshold)
    contours,      \* the candidate contours (cs.allsegs[0])
    threshold,     \* the closure threshold in km
    long_contour,  \* what the call returned or raised
    spc,           \* "idle" | "call" | "done"
    \* outflow_th(case, theta_levels, ..., resolution, save)
    theta_levels,        \* the list of theta levels
    th_resolution,       \* the parameter `resolution`
    save,                \* the parameter `save`
    i,                   \* the index of the level the loop is at (0-based)
    new_contours,        \* the flag of line 66
    outflow_boundaries,  \* the local of that name: unbound, or its rows
    outflow_volume,      \* the local of that name: unbound, or its rows
    saved,               \* the arrays written by np.save, if any
    outcomes,            \* what get_points gave at each level so far
    opc,                 \* "idle" | "loop" | "done" | "UnboundLocalError"
    \* diff(cube_theta, idx_0)
    cube_theta,    \* the series: floats, some of them NaN
    idx_0,         \* <<>> for None, <<k>> for the index k
    diff_out,      \* the returned series, None before
    dpc,           \* "idle" | "call" | "done"
    \* vorticity(cubes, name) / potential_vorticity(cubes, name)
    fields,        \* the cubes "area", "mass" and "circulation"
    quantity,      \* which of the two functions is called
    derived,       \* what the call returned or raised, None before
    vpc,           \* "idle" | "call" | "done"
    \* get_cube_by_name(cubes, name)
    cubes,         \* the CubeList: a list of named cubes
    name,          \* the requested name
    cube,          \* what the call returned or raised, None before
    npc,           \* "idle" | "call" | "done"
    \* _bin_edges(x)
    x,             \* the grid coordinate
    xed,           \* the returned edges, None before
    bpc            \* "idle" | "call" | "done"

resampleVars == <<points, n, resolution, circuit, rpc>>
selectVars == <<contours, threshold, long_contour, spc>>
outflowVars == <<theta_levels, th_resolution, save, i, new_contours,
                 outflow_boundaries, outflow_volume, saved, outcomes, opc>>
diffVars == <<cube_theta, idx_0, diff_out, dpc>>
vorticityVars == <<fields, quantity, derived, vpc>>
nameVars == <<cubes, name, cube, npc>>
binVars == <<x, xed, bpc>>
vars == <<resampleVars, selectVars, outflowVars, diffVars, vorticityVars,
          nameVars, binVars>>

-----------------------------------------------------------------------------
(* Bounds of the model.                                                    *)

\* polygons handed to increase_circuit_resolution: longitudes 0..MaxLon km
MaxLon == 5
\* ... with 1..MaxLen points
MaxLen == 3
\* ... and resolutions 1..MaxRes km
MaxRes == 2
\* candidate contours: the longitudes 0, 40, 120, 240, ... km (the gaps grow
\* by 40 km), indices 0..MaxSelLon
MaxSelLon == 2
\* ... with 1..MaxContourLen points each
MaxContourLen == 2
\* ... and at most MaxContours candidates in one list
MaxContours == 2
\* outflow_th runs over 1..MaxLevels theta levels
MaxLevels == 3
\* diff: series of 1..MaxSeries entries, NaN or an integer -MaxVal..MaxVal
MaxSeries == 3
MaxVal == 1
\* vorticity: the fields' times are subsets of 0..MaxTime
MaxTime == 3
\* get_cube_by_name: at most MaxCubes cubes in the list
MaxCubes == 2
\* _bin_edges: grids of 2..MaxGrid points from -MaxOrigin..MaxOrigin on,
\* 1..MaxSpacing apart
MaxGrid == 5
MaxOrigin == 3
MaxSpacing == 4

\* get_longest_closed_contour(contours, threshold=100)
DefaultThreshold == 100
\* outflow_th(..., resolution=5, ...)
DefaultResolution == 5

-----------------------------------------------------------------------------
(* Sequences and numbers.                                                  *)

Abs(a) == IF a < 0 THEN -a ELSE a

\* all sequences over S with lo..hi elements
SeqsOf(S, lo, hi) == UNION {[1..k -> S] : k \in lo..hi}

\* np.insert(arr, k, v, axis=0): a NEW array with v before 0-based index k
NpInsert(arr, k, v) ==
    SubSeq(arr, 1, k) \o <<v>> \o SubSeq(arr, k + 1, Len(arr))

-----------------------------------------------------------------------------
(* Geodesy primitives (outflow.py).                                        *)

\* haversine(x1, x2) for two points of the equator, in km (see the header)
haversine(x1, x2) == Abs(x2[1] - x1[1])

\* contour_length(points): the wraparound edge plus every consecutive edge
RECURSIVE SumEdges(_, _)
SumEdges(pts, k) ==
    IF k >= Len(pts) THEN 0
    ELSE haversine(pts[k], pts[k + 1]) + SumEdges(pts, k + 1)

contour_length(pts) == haversine(pts[Len(pts)], pts[1]) + SumEdges(pts, 1)

is_closed_contour(contour_section, thr) ==
    haversine(contour_section[1], contour_section[Len(contour_section)]) < thr

-----------------------------------------------------------------------------
(* get_longest_closed_contour (outflow.py 161-184).                        *)

None == "None"

\* what a call gives: a value, or the exception it raised
Return(v) == [ok |-> TRUE, value |-> v]
Raise(e) == [ok |-> FALSE, error |-> e]

\* (fault: the lengths of the open contours are not set to zero)
ZeroedLengthKeepOpen(c, thr) == contour_length(c)

\* lengths *= closed.astype(int), element by element

ZeroedLength(c, thr) ==
    contour_length(c) * (IF is_closed_contour(c, thr) THEN 1 ELSE 0)

\* numpy argmax: the first index (0-based) of the largest entry
ArgMax(a) ==
    CHOOSE m \in 0..(Len(a) - 1) :
        /\ \A j \in 0..(Len(a) - 1) : a[j + 1] <= a[m + 1]
        /\ \A j \in 0..(m - 1) : a[j + 1] < a[m + 1]

get_longest_closed_contour(cs, thr) ==
    LET lengths == [k \in 1..Len(cs) |-> ZeroedLength(cs[k], thr)]
    IN  IF Len(cs) = 0
        THEN Raise("ValueError")      \* argmax of an empty sequence
        ELSE LET imax == ArgMax(lengths)
             IN  IF lengths[imax + 1] = 0
                 THEN Raise("ValueError")   \* "No closed contours found"
                 ELSE Return(cs[imax + 1])

\* the inputs: lists of contours on the equator
\* (with the default threshold some pairs of these longitudes close a
\* contour and some do not, and the closed contours differ in length)
SelLons == {20 * k * (k + 1) : k \in 0..MaxSelLon}
Contours == SeqsOf({<<lon, 0>> : lon \in SelLons}, 1, MaxContourLen)
ContourLists == SeqsOf(Contours, 0, MaxContours)
Thresholds == {DefaultThreshold}

SelectIdle ==
    /\ contours = <<>>
    /\ threshold = 0
    /\ long_contour = None
    /\ spc = "idle"

SelectInit ==
    /\ contours \in ContourLists
    /\ threshold \in Thresholds
    /\ long_contour = None
    /\ spc = "call"

SelectCall ==
    /\ spc = "call"
    /\ long_contour' = get_longest_closed_contour(contours, threshold)
    /\ spc' = "done"
    /\ UNCHANGED <<contours, threshold>>
    /\ UNCHANGED <<resampleVars, outflowVars, diffVars, vorticityVars,
                   nameVars, binVars>>

-----------------------------------------------------------------------------
(* increase_circuit_resolution (outflow.py 222-250).                       *)

\* (fault: the index does not advance)
NextIndexStuck(k) == k

\* the index the loop continues at after one pass: n += 1

NextIndex(k) == k + 1

\* One pass of the while loop body at index k (0-based) over pts:
\* the array and the index after the pass.
LoopBody(pts, k, res) ==
    LET np1      == (k + 1) % Len(pts)
        distance == haversine(pts[k + 1], pts[np1 + 1])
    IN  IF distance > res
        THEN LET dlon    == pts[np1 + 1][1] - pts[k + 1][1]
                 dlat    == pts[np1 + 1][2] - pts[k + 1][2]
                 new_lon == pts[k + 1][1] + (res * dlon) \div distance
                 new_lat == pts[k + 1][2] + (res * dlat) \div distance
             IN  [points |-> NpInsert(pts, np1, <<new_lon, new_lat>>),
                  n      |-> NextIndex(k)]
        ELSE [points |-> pts, n |-> NextIndex(k)]

\* the whole call: the array the function returns
RECURSIVE ResampleFrom(_, _, _)
ResampleFrom(pts, k, res) ==
    IF k < Len(pts)
    THEN LET s == LoopBody(pts, k, res) IN ResampleFrom(s.points, s.n, res)
    ELSE pts

increase_circuit_resolution(pts, res) == ResampleFrom(pts, 0, res)

\* the inputs: closed polygons on the equator
Lons == 0..MaxLon
Polygons == SeqsOf({<<lon, 0>> : lon \in Lons}, 1, MaxLen)
Resolutions == 1..MaxRes

ResampleIdle ==
    /\ points = <<>>
    /\ n = 0
    /\ resolution = 0
    /\ circuit = <<>>
    /\ rpc = "idle"

\* entry: n = 0
ResampleInit ==
    /\ circuit \in Polygons
    /\ points = circuit
    /\ resolution \in Resolutions
    /\ n = 0
    /\ rpc = "loop"

\* while n < len(points): one pass
ResampleStep ==
    /\ rpc = "loop"
    /\ n < Len(points)
    /\ LET s == LoopBody(points, n, resolution)
       IN  /\ points' = s.points
           /\ n' = s.n
    /\ UNCHANGED <<resolution, circuit, rpc>>
    /\ UNCHANGED <<selectVars, outflowVars, diffVars, vorticityVars,
                   nameVars, binVars>>

\* the loop condition fails: return points
ResampleReturn ==
    /\ rpc = "loop"
    /\ ~(n < Len(points))
    /\ rpc' = "done"
    /\ UNCHANGED <<points, n, resolution, circuit>>
    /\ UNCHANGED <<selectVars, outflowVars, diffVars, vorticityVars,
                   nameVars, binVars>>


-----------------------------------------------------------------------------
(* get_points (outflow.py 142-158), from the contour set of the mask on.   *)
(* The mask, its contouring (iplt.contour) and the point-in-polygon test   *)
(* (matplotlib Path.contains_points) are library code: the contour set is  *)
(* an input, and a grid point counts as inside a path of the equator when  *)
(* it lies strictly between the path's extreme longitudes.                 *)

\* the grid of dtheta: longitudes 20 km apart; z.data at a grid point
GridPoints ==
    [k \in 1..(MaxSelLon * (MaxSelLon + 1) + 1) |-> <<20 * (k - 1), 0>>]
Altitude(p) == 9000 + p[1]

MinLon(path) == CHOOSE a \in {path[k][1] : k \in 1..Len(path)} :
                    \A k \in 1..Len(path) : a <= path[k][1]
MaxLonOf(path) == CHOOSE a \in {path[k][1] : k \in 1..Len(path)} :
                    \A k \in 1..Len(path) : a >= path[k][1]

\* points3d[idx, :] with idx = np.where(path.contains_points(points))
ContainedPoints(path) ==
    LET points3d == [k \in 1..Len(GridPoints) |->
                        <<GridPoints[k][1], GridPoints[k][2],
                          Altitude(GridPoints[k])>>]
        Inside(row) == MinLon(path) < row[1] /\ row[1] < MaxLonOf(path)
    IN  SelectSeq(points3d, Inside)

\* The array get_points goes on with after line 149.  np.insert builds a new
\* array and the call's result is dropped, so closed_loop is what it was.
AfterResolutionCall(closed_loop, resampled) == closed_loop

get_points(cs, res) ==
    LET found == get_longest_closed_contour(cs, DefaultThreshold)
    IN  IF ~found.ok
        THEN found
        ELSE LET closed_loop == AfterResolutionCall(found.value,
                                    increase_circuit_resolution(found.value, res))
             IN  Return([boundary |-> closed_loop,
                         path     |-> closed_loop,
                         points   |-> ContainedPoints(closed_loop)])

-----------------------------------------------------------------------------
(* outflow_th (outflow.py 17-120): the loop over the theta levels and the  *)
(* save step.  Loading, filtering and plotting are left to the libraries.  *)

Unbound == [bound |-> FALSE]
Bound(rows) == [bound |-> TRUE, rows |-> rows]

NotSaved == [written |-> FALSE]
Saved(boundaries, volume) ==
    [written |-> TRUE, outflow_boundaries |-> boundaries,
     outflow_volume |-> volume]

\* boundary3d / points3d: every row with theta_level in a last column
Tagged(rows, theta_level) ==
    [k \in 1..Len(rows) |-> Append(rows[k], theta_level)]

\* the contour sets of the mask at one level
LevelContourLists == ContourLists
ThetaLevelLists == {[k \in 1..m |-> 300 + 5 * k] : m \in 1..MaxLevels}
ThResolutions == {DefaultResolution, 60}

OutflowIdle ==
    /\ theta_levels = <<>>
    /\ th_resolution = 0
    /\ save = FALSE
    /\ i = 0
    /\ new_contours = TRUE
    /\ outflow_boundaries = Unbound
    /\ outflow_volume = Unbound
    /\ saved = NotSaved
    /\ outcomes = <<>>
    /\ opc = "idle"

\* line 66: new_contours = True; the two accumulators are not assigned
OutflowInit ==
    /\ theta_levels \in ThetaLevelLists
    /\ th_resolution \in ThResolutions
    /\ save \in BOOLEAN
    /\ i = 0
    /\ new_contours = TRUE
    /\ outflow_boundaries = Unbound
    /\ outflow_volume = Unbound
    /\ saved = NotSaved
    /\ outcomes = <<>>
    /\ opc = "loop"

\* one pass of the for loop (lines 67-112) over the level's contour set
Level ==
    /\ opc = "loop"
    /\ i < Len(theta_levels)
    /\ \E cs \in LevelContourLists :
        LET theta_level == theta_levels[i + 1]
            got         == get_points(cs, th_resolution)
        IN  /\ outcomes' = Append(outcomes, [theta_level |-> theta_level,
                                             got |-> got])
            /\ IF got.ok
               THEN LET boundary3d == Tagged(got.value.boundary, theta_level)
                        points3d   == Tagged(got.value.points, theta_level)
                    IN  IF new_contours
                        THEN /\ outflow_boundaries' = Bound(boundary3d)
                             /\ outflow_volume' = Bound(points3d)
                             /\ new_contours' = FALSE
                        ELSE /\ outflow_boundaries' =
                                    Bound(outflow_boundaries.rows \o boundary3d)
                             /\ outflow_volume' =
                                    Bound(outflow_volume.rows \o points3d)
                             /\ UNCHANGED new_contours
               ELSE \* except ValueError: print(...)
                    UNCHANGED <<new_contours, outflow_boundaries, outflow_volume>>
    /\ i' = i + 1
    /\ UNCHANGED <<theta_levels, th_resolution, save, saved, opc>>
    /\ UNCHANGED <<resampleVars, selectVars, diffVars, vorticityVars,
                   nameVars, binVars>>

\* lines 114-120: after the loop
Finish ==
    /\ opc = "loop"
    /\ i = Len(theta_levels)
    /\ IF save
       THEN IF outflow_boundaries.bound
            THEN /\ saved' = Saved(outflow_boundaries.rows,
                                   outflow_volume.rows)
                 /\ opc' = "done"
            ELSE \* np.save(..., outflow_boundaries) reads an unbound local
                 /\ opc' = "UnboundLocalError"
                 /\ UNCHANGED saved
       ELSE \* plt.show()
            /\ opc' = "done"
            /\ UNCHANGED saved
    /\ UNCHANGED <<theta_levels, th_resolution, save, i, new_contours,
                   outflow_boundaries, outflow_volume, outcomes>>
    /\ UNCHANGED <<resampleVars, selectVars, diffVars, vorticityVars,
                   nameVars, binVars>>

-----------------------------------------------------------------------------
(* Floats, as far as calc.py needs them: NaN, the infinities and exact     *)
(* quotients of integers.                                                  *)

Num(k) == [kind |-> "num", num |-> k, den |-> 1]
NaN == [kind |-> "nan", num |-> 0, den |-> 1]
Inf(sign) == [kind |-> "inf", num |-> sign, den |-> 1]

IsNaN(a) == a.kind = "nan"

\* a - b for two series entries (integers or NaN)
FSub(a, b) ==
    IF IsNaN(a) \/ IsNaN(b) THEN NaN ELSE Num(a.num - b.num)

\* a / b for two integers or NaN: IEEE division, the quotient kept exact
FDiv(a, b) ==
    IF IsNaN(a) \/ IsNaN(b) THEN NaN
    ELSE IF b.num = 0
         THEN IF a.num = 0 THEN NaN
              ELSE Inf(IF a.num > 0 THEN 1 ELSE -1)
    ELSE IF a.num = 0 THEN Num(0)
    ELSE IF b.num < 0 THEN [kind |-> "num", num |-> -a.num, den |-> -b.num]
    ELSE [kind |-> "num", num |-> a.num, den |-> b.num]

-----------------------------------------------------------------------------
(* diff (calc.py 9-23).                                                    *)

\* Python's a[k]: a negative k counts from the end
PyIndex(a, k) == IF k < 0 THEN a[Len(a) + k + 1] ELSE a[k + 1]

Valid(v) == ~IsNaN(v)

\* (fault: the first entry is taken whether it is missing or not)
cube_initial_ignoring_nan(series, idx) ==
    IF idx = <<>> THEN series[1] ELSE PyIndex(series, idx[1])

\* lines 10-17: the reference value cube_initial

cube_initial(series, idx) ==
    IF idx = <<>>
    THEN IF ~(\A k \in 1..Len(series) : IsNaN(series[k]))
         THEN SelectSeq(series, Valid)[1]
         ELSE series[1]
    ELSE PyIndex(series, idx[1])

\* line 23: (cube_theta - cube_initial) / cube_initial
diff(series, idx) ==
    LET initial == cube_initial(series, idx)
    IN  [k \in 1..Len(series) |-> FDiv(FSub(series[k], initial), initial)]

Floats == {NaN} \cup {Num(k) : k \in (-MaxVal)..MaxVal}
Series == SeqsOf(Floats, 1, MaxSeries)

DiffIdle ==
    /\ cube_theta = <<>>
    /\ idx_0 = <<>>
    /\ diff_out = None
    /\ dpc = "idle"

DiffInit ==
    /\ cube_theta \in Series
    /\ idx_0 \in {<<>>} \cup {<<k>> : k \in (-Len(cube_theta))..(Len(cube_theta) - 1)}
    /\ diff_out = None
    /\ dpc = "call"

DiffCall ==
    /\ dpc = "call"
    /\ diff_out' = diff(cube_theta, idx_0)
    /\ dpc' = "done"
    /\ UNCHANGED <<cube_theta, idx_0>>
    /\ UNCHANGED <<resampleVars, selectVars, outflowVars, vorticityVars,
                   nameVars, binVars>>

-----------------------------------------------------------------------------
(* Cubes.  A cube carries a name, a unit, its time coordinate (ascending,  *)
(* unique points) and one data value per time.  The data value of the cube *)
(* called nm at time t is the sample <<nm, t>>, so that a value says which *)
(* field and which time it came from; a quotient is the pair of its two    *)
(* operands.                                                               *)

RECURSIVE Ascending(_)
Ascending(T) ==
    IF T = {} THEN <<>>
    ELSE LET lo == CHOOSE t \in T : \A u \in T : t <= u
         IN  <<lo>> \o Ascending(T \ {lo})

MakeCube(nm, T) ==
    LET time == Ascending(T)
    IN  [name  |-> nm,
         units |-> "units of " \o nm,
         time  |-> time,
         data  |-> [k \in 1..Len(time) |-> <<nm, time[k]>>]]

TimePoints(cb) == {cb.time[k] : k \in 1..Len(cb.time)}

\* cube.extract(iris.Constraint(time=lambda cell: cell in dates)): the
\* entries whose time is one of dates (iris gives None when there is none:
\* the cube with no entry stands for it)
Extract(cb, dates) ==
    LET keep == {k \in 1..Len(cb.time) : cb.time[k] \in dates}
        at   == Ascending(keep)
    IN  [cb EXCEPT !.time = [k \in 1..Len(at) |-> cb.time[at[k]]],
                   !.data = [k \in 1..Len(at) |-> cb.data[at[k]]]]

\* a / b of two cubes on one time coordinate, entry by entry
CubeDivide(a, b) ==
    [name  |-> "unknown",
     units |-> a.units \o " / " \o b.units,
     time  |-> a.time,
     data  |-> [k \in 1..Len(a.data) |-> [num |-> a.data[k], den |-> b.data[k]]]]

\* (fault: a lenient lookup, the first cube of that name or None)
extract_first(cs, nm) ==
    LET hits == {k \in 1..Len(cs) : cs[k].name = nm}
    IN  IF hits = {} THEN Return(None)
        ELSE Return(cs[CHOOSE k \in hits : \A j \in hits : k <= j])

\* cubes.extract_strict(nm): the one cube of that name, an error otherwise

extract_strict(cs, nm) ==
    LET hits == {k \in 1..Len(cs) : cs[k].name = nm}
    IN  IF Cardinality(hits) = 1
        THEN Return(cs[CHOOSE k \in hits : TRUE])
        ELSE Raise("ConstraintMismatchError")

-----------------------------------------------------------------------------
(* equate_times, vorticity, potential_vorticity (calc.py 61-102).          *)

\* (fault: the cube is not restricted to the reference's times)
restrict_cube_skipped(cb, ref_dates) == cb

\* line 91: cube = cube.extract(ref_cst)

restrict_cube(cb, ref_dates) == Extract(cb, ref_dates)

equate_times(cb, reference_cube) ==
    LET ref_dates == TimePoints(reference_cube)
        cube1     == restrict_cube(cb, ref_dates)
    IN  IF Len(cube1.time) = 0
        THEN Raise("AttributeError")     \* None.coord('time')
        ELSE LET cube_dates == TimePoints(cube1)
                 reference1 == Extract(reference_cube, cube_dates)
                 new_cube   == [reference1 EXCEPT !.name  = cube1.name,
                                                  !.units = cube1.units,
                                                  !.data  = cube1.data]
             IN  Return(<<new_cube, reference1>>)

\* circulation / denominator after equate_times(denominator, circulation)
CirculationOver(denominator_name, cs, circulation_name) ==
    LET denominator == extract_strict(cs, denominator_name)
        circulation == extract_strict(cs, circulation_name \o "circulation")
    IN  IF ~denominator.ok THEN denominator
        ELSE IF ~circulation.ok THEN circulation
        ELSE LET eq == equate_times(denominator.value, circulation.value)
             IN  IF ~eq.ok THEN eq
                 ELSE Return(CubeDivide(eq.value[2], eq.value[1]))

vorticity(cs, circulation_name) == CirculationOver("area", cs, circulation_name)

potential_vorticity(cs, circulation_name) ==
    CirculationOver("mass", cs, circulation_name)

Times == 0..MaxTime
TimeSets == (SUBSET Times) \ {{}}

VorticityIdle ==
    /\ fields = <<>>
    /\ quantity = "none"
    /\ derived = None
    /\ vpc = "idle"

VorticityInit ==
    /\ \E Ta \in TimeSets, Tm \in TimeSets, Tc \in TimeSets :
        fields = <<MakeCube("area", Ta), MakeCube("mass", Tm),
                   MakeCube("circulation", Tc)>>
    /\ quantity \in {"vorticity", "potential_vorticity"}
    /\ derived = None
    /\ vpc = "call"

VorticityCall ==
    /\ vpc = "call"
    /\ derived' = IF quantity = "vorticity"
                  THEN vorticity(fields, "")
                  ELSE potential_vorticity(fields, "")
    /\ vpc' = "done"
    /\ UNCHANGED <<fields, quantity>>
    /\ UNCHANGED <<resampleVars, selectVars, outflowVars, diffVars,
                   nameVars, binVars>>

-----------------------------------------------------------------------------
(* get_cube_by_name, density, ratio (calc.py 39-58, 78-85).                *)

\* Python's `sub in s`
Contains(s, sub) ==
    \E k \in 1..(Len(s) - Len(sub) + 1) : SubSeq(s, k, k + Len(sub) - 1) = sub

\* Python's s[:-k]
DropLast(s, k) == IF Len(s) > k THEN SubSeq(s, 1, Len(s) - k) ELSE ""

density(cs) ==
    LET mass == extract_strict(cs, "mass")
        area == extract_strict(cs, "area")
    IN  IF ~mass.ok THEN mass
        ELSE IF ~area.ok THEN area
        ELSE Return(CubeDivide(mass.value, area.value))

\* diff(cube) on samples: every entry against the cube's first entry
\* (a sample is never NaN)
SampleDiff(cb) ==
    [cb EXCEPT !.data = [k \in 1..Len(cb.data) |->
                            [change |-> cb.data[k], from |-> cb.data[1]]]]

ratio(cs) ==
    LET mass == extract_strict(cs, "mass")
        area == extract_strict(cs, "area")
    IN  IF ~mass.ok THEN mass
        ELSE IF ~area.ok THEN area
        ELSE Return(CubeDivide(SampleDiff(mass.value), SampleDiff(area.value)))

get_cube_by_name(cs, nm) ==
    IF nm = "density" THEN density(cs)
    ELSE IF Contains(nm, "vorticity") THEN vorticity(cs, DropLast(nm, 9))
    ELSE IF Contains(nm, "PV") THEN potential_vorticity(cs, DropLast(nm, 2))
    ELSE IF nm = "mass area anomaly ratio" THEN ratio(cs)
    ELSE extract_strict(cs, nm)

StoredNames == {"mass", "area", "circulation", "relative circulation",
                "density", "relative vorticity", "PV", "temperature"}
RequestedNames == StoredNames \cup
    {"vorticity", "relative PV", "mass area anomaly ratio", "pressure"}
CubeLists == SeqsOf({MakeCube(nm, Times) : nm \in StoredNames}, 0, MaxCubes)

NameIdle ==
    /\ cubes = <<>>
    /\ name = ""
    /\ cube = None
    /\ npc = "idle"

NameInit ==
    /\ cubes \in CubeLists
    /\ name \in RequestedNames
    /\ cube = None
    /\ npc = "call"

NameCall ==
    /\ npc = "call"
    /\ cube' = get_cube_by_name(cubes, name)
    /\ npc' = "done"
    /\ UNCHANGED <<cubes, name>>
    /\ UNCHANGED <<resampleVars, selectVars, outflowVars, diffVars,
                   vorticityVars, binVars>>

-----------------------------------------------------------------------------
(* _bin_edges (outflow.py 285-291).                                        *)

RECURSIVE SumSeq(_)
SumSeq(a) == IF a = <<>> THEN 0 ELSE a[1] + SumSeq(Tail(a))

\* np.diff(a).mean(), for a grid whose mean spacing is a whole number
MeanDiff(a) ==
    SumSeq([k \in 1..(Len(a) - 1) |-> a[k + 1] - a[k]]) \div (Len(a) - 1)

\* xed[:-1] = x - dx ; xed[-1] = x[-1] + dx
_bin_edges(grid) ==
    LET dx == MeanDiff(grid)
    IN  [k \in 1..(Len(grid) + 1) |->
            IF k <= Len(grid) THEN grid[k] - dx ELSE grid[Len(grid)] + dx]

\* uniformly spaced grid coordinates
UniformGrid(x0, dx, len) == [k \in 1..len |-> x0 + (k - 1) * dx]
Grids == {UniformGrid(x0, dx, len) :
            x0 \in (-MaxOrigin)..MaxOrigin, dx \in 1..MaxSpacing,
            len \in 2..MaxGrid}

BinIdle ==
    /\ x = <<>>
    /\ xed = None
    /\ bpc = "idle"

BinInit ==
    /\ x \in Grids
    /\ xed = None
    /\ bpc = "call"

BinCall ==
    /\ bpc = "call"
    /\ xed' = _bin_edges(x)
    /\ bpc' = "done"
    /\ UNCHANGED x
    /\ UNCHANGED <<resampleVars, selectVars, outflowVars, diffVars,
                   vorticityVars, nameVars>>

-----------------------------------------------------------------------------
(* Specifications.  Each one runs one entry point of the package from its  *)
(* inputs; the variables of the other entry points stay idle.              *)

\* outflow_th
Init ==
    /\ OutflowInit
    /\ ResampleIdle /\ SelectIdle /\ DiffIdle /\ VorticityIdle
    /\ NameIdle /\ BinIdle

Next == Level \/ Finish

Spec == Init /\ [][Next]_vars

\* increase_circuit_resolution
ResampleStart ==
    /\ ResampleInit
    /\ SelectIdle /\ OutflowIdle /\ DiffIdle /\ VorticityIdle
    /\ NameIdle /\ BinIdle

ResampleNext == ResampleStep \/ ResampleReturn

ResampleSpec == ResampleStart /\ [][ResampleNext]_vars

\* The loop is sequential code: a pass that can run does run.
ResampleFairSpec == ResampleSpec /\ WF_vars(ResampleNext)

\* get_longest_closed_contour
SelectStart ==
    /\ SelectInit
    /\ ResampleIdle /\ OutflowIdle /\ DiffIdle /\ VorticityIdle
    /\ NameIdle /\ BinIdle

SelectSpec == SelectStart /\ [][SelectCall]_vars

\* diff
DiffStart ==
    /\ DiffInit
    /\ ResampleIdle /\ SelectIdle /\ OutflowIdle /\ VorticityIdle
    /\ NameIdle /\ BinIdle

DiffSpec == DiffStart /\ [][DiffCall]_vars

\* vorticity and potential_vorticity
VorticityStart ==
    /\ VorticityInit
    /\ ResampleIdle /\ SelectIdle /\ OutflowIdle /\ DiffIdle
    /\ NameIdle /\ BinIdle

VorticitySpec == VorticityStart /\ [][VorticityCall]_vars

\* get_cube_by_name
NameStart ==
    /\ NameInit
    /\ ResampleIdle /\ SelectIdle /\ OutflowIdle /\ DiffIdle
    /\ VorticityIdle /\ BinIdle

NameSpec == NameStart /\ [][NameCall]_vars

\* _bin_edges
BinStart ==
    /\ BinInit
    /\ ResampleIdle /\ SelectIdle /\ OutflowIdle /\ DiffIdle
    /\ VorticityIdle /\ NameIdle

BinSpec == BinStart /\ [][BinCall]_vars

-----------------------------------------------------------------------------
(* Claims about get_points and get_longest_closed_contour.                 *)

\* every two consecutive points of pts are at most res apart
SpacedOpen(pts, res) ==
    \A k \in 1..(Len(pts) - 1) : haversine(pts[k], pts[k + 1]) <= res

\* C1: whenever the mask has a closed contour, the boundary get_points
\* returns is the resampled loop (every two consecutive points of it are no
\* farther apart than the requested resolution) and the same polygon is the
\* one used for the point-in-polygon classification.
C1_BoundaryIsResampled ==
    \A k \in 1..Len(outcomes) :
        outcomes[k].got.ok =>
            /\ SpacedOpen(outcomes[k].got.value.boundary, th_resolution)
            /\ outcomes[k].got.value.path = outcomes[k].got.value.boundary

ClosedIn(cs, thr) == {k \in 1..Len(cs) : is_closed_contour(cs[k], thr)}

\* the call returned a closed candidate at least as long as every closed one
ReturnsLongestClosed ==
    /\ long_contour.ok
    /\ \E k \in ClosedIn(contours, threshold) : long_contour.value = contours[k]
    /\ \A k \in ClosedIn(contours, threshold) :
            contour_length(long_contour.value) >= contour_length(contours[k])

\* C2 as stated: whenever at least one candidate passes is_closed_contour,
\* the call returns a closed candidate at least as long as every other closed
\* candidate; when every candidate is open it raises instead.
C2_AnyClosedCandidate ==
    spc = "done" =>
        IF ClosedIn(contours, threshold) # {}
        THEN ReturnsLongestClosed
        ELSE ~long_contour.ok

\* C2 as amended: whenever at least one candidate passes is_closed_contour
\* and has a contour_length above zero, the call returns a closed candidate
\* at least as long as every other closed candidate (open candidates never
\* win, however long); when every candidate is open or of length zero, or
\* there is no candidate, it raises ValueError instead of returning one.
C2_LongestClosedOfPositiveLength ==
    spc = "done" =>
        IF \E k \in ClosedIn(contours, threshold) : contour_length(contours[k]) > 0
        THEN ReturnsLongestClosed
        ELSE ~long_contour.ok /\ long_contour.error = "ValueError"

\* a call that returned a closed contour although an open one is longer
C2_Witness ==
    /\ spc = "done"
    /\ long_contour.ok
    /\ \E k \in 1..Len(contours) :
         /\ ~is_closed_contour(contours[k], threshold)
         /\ contour_length(contours[k]) > contour_length(long_contour.value)

-----------------------------------------------------------------------------
(* Claims about outflow_th.                                                *)

\* the rows of the successful levels so far, in level order, each tagged
\* with its theta level
RECURSIVE BoundaryRows(_)
BoundaryRows(outs) ==
    IF outs = <<>> THEN <<>>
    ELSE LET last == outs[Len(outs)]
         IN  BoundaryRows(SubSeq(outs, 1, Len(outs) - 1)) \o
             (IF last.got.ok
              THEN Tagged(last.got.value.boundary, last.theta_level)
              ELSE <<>>)

RECURSIVE VolumeRows(_)
VolumeRows(outs) ==
    IF outs = <<>> THEN <<>>
    ELSE LET last == outs[Len(outs)]
         IN  VolumeRows(SubSeq(outs, 1, Len(outs) - 1)) \o
             (IF last.got.ok
              THEN Tagged(last.got.value.points, last.theta_level)
              ELSE <<>>)

\* C3: for any pattern of per-level success or failure, after the last
\* level the accumulated boundary and volume are exactly the concatenation,
\* in level order, of the rows of the successful levels, each row tagged with
\* its own theta level (a failing level adds nothing and does not stop the
\* loop).
C3_AccumulatedIsConcatenation ==
    i = Len(theta_levels) =>
        /\ Len(outcomes) = Len(theta_levels)
        /\ outflow_boundaries = Bound(BoundaryRows(outcomes))
        /\ outflow_volume = Bound(VolumeRows(outcomes))

\* (the part of C3 the code does keep: once a level has succeeded, the
\* accumulators hold the concatenation of the successful levels so far)
C3_HoldsOnceALevelSucceeded ==
    ~new_contours =>
        /\ outflow_boundaries = Bound(BoundaryRows(outcomes))
        /\ outflow_volume = Bound(VolumeRows(outcomes))

\* C6: the accumulated boundary and volume are defined and empty in every
\* state before the first successful level; a run in which every level
\* failed, with save requested, still completes and persists an empty
\* boundary and an empty volume.
C6_EmptyBeforeFirstSuccess ==
    /\ opc # "UnboundLocalError"
    /\ new_contours =>
        /\ outflow_boundaries = Bound(<<>>)
        /\ outflow_volume = Bound(<<>>)
    /\ (opc = "done" /\ save /\ new_contours) => saved = Saved(<<>>, <<>>)

-----------------------------------------------------------------------------
(* Claims about calc.py.                                                   *)

\* C5: when the two fields share a time, vorticity is defined on exactly
\* their common times and its value at each common time t is
\* circulation(t) / area(t); potential_vorticity likewise gives
\* circulation(t) / mass(t).
C5_QuotientOnCommonTimes ==
    vpc = "done" =>
        LET denominator == IF quantity = "vorticity" THEN fields[1] ELSE fields[2]
            circulation == fields[3]
            common      == TimePoints(denominator) \cap TimePoints(circulation)
        IN  common # {} =>
                /\ derived.ok
                /\ derived.value.time = Ascending(common)
                /\ Len(derived.value.data) = Cardinality(common)
                /\ \A k \in 1..Len(derived.value.data) :
                        derived.value.data[k] =
                            [num |-> <<"circulation", derived.value.time[k]>>,
                             den |-> <<denominator.name, derived.value.time[k]>>]

\* a quotient over two fields of which each has a time the other lacks, the
\* denominator's first time among them
C5_Witness ==
    /\ vpc = "done"
    /\ derived.ok
    /\ LET denominator == IF quantity = "vorticity" THEN fields[1] ELSE fields[2]
           circulation == fields[3]
       IN  /\ denominator.time[1] \notin TimePoints(circulation)
           /\ TimePoints(circulation) \ TimePoints(denominator) # {}
           /\ Len(derived.value.data) >= 2

MatchesRule(nm) ==
    \/ nm = "density"
    \/ Contains(nm, "vorticity")
    \/ Contains(nm, "PV")
    \/ nm = "mass area anomaly ratio"

StoredAs(nm) == {k \in 1..Len(cubes) : cubes[k].name = nm}

\* C7 as stated: a requested name that is the exact name of a stored field
\* always gives that stored field, and the call fails only when the name
\* matches no derived-quantity rule and no stored field has that name.
C7_StoredNameAlwaysWins ==
    npc = "done" =>
        /\ StoredAs(name) # {} =>
                cube.ok /\ \E k \in StoredAs(name) : cube.value = cubes[k]
        /\ ~cube.ok => (~MatchesRule(name) /\ StoredAs(name) = {})

\* C7 as amended: for a requested name that matches no derived-quantity
\* rule (it is not "density" or "mass area anomaly ratio" and contains
\* neither "vorticity" nor "PV"), the call returns the stored field of that
\* name when exactly one stored field has it, and fails when none has.
C7_StoredNameWinsWhenNoRuleMatches ==
    npc = "done" =>
        (~MatchesRule(name) =>
            /\ Cardinality(StoredAs(name)) = 1 =>
                    cube.ok /\ \E k \in StoredAs(name) : cube.value = cubes[k]
            /\ StoredAs(name) = {} => ~cube.ok)

\* a direct lookup that found its field among two stored ones
C7_Witness ==
    /\ npc = "done"
    /\ ~MatchesRule(name)
    /\ Len(cubes) = 2
    /\ Cardinality(StoredAs(name)) = 1
    /\ cube.ok

\* the index (from 1) of the reference entry the claim names
ReferenceIndex ==
    IF idx_0 # <<>>
    THEN IF idx_0[1] < 0 THEN Len(cube_theta) + idx_0[1] + 1 ELSE idx_0[1] + 1
    ELSE IF \E k \in 1..Len(cube_theta) : ~IsNaN(cube_theta[k])
         THEN CHOOSE k \in 1..Len(cube_theta) :
                /\ ~IsNaN(cube_theta[k])
                /\ \A j \in 1..(k - 1) : IsNaN(cube_theta[j])
         ELSE 1

-----------------------------------------------------------------------------
(* Claims about _bin_edges.                                                *)

\* C10: for a uniform grid of spacing dx, _bin_edges gives len(x)+1 strictly
\* increasing edges with bin k = [x[k] - dx/2, x[k] + dx/2] (written here
\* with both sides doubled).
C10_BinsCentredOnGridPoints ==
    bpc = "done" =>
        LET dx == x[2] - x[1]
        IN  /\ Len(xed) = Len(x) + 1
            /\ \A k \in 1..Len(x) : xed[k] < xed[k + 1]
            /\ \A k \in 1..Len(x) :
                    /\ 2 * xed[k] = 2 * x[k] - dx
                    /\ 2 * xed[k + 1] = 2 * x[k] + dx

-----------------------------------------------------------------------------
(* Claims about increase_circuit_resolution.                               *)

\* every pair of consecutive points of pts, the pair last -> first
\* included, is at most res apart
SpacedClosed(pts, res) ==
    \A k \in 1..Len(pts) :
        haversine(pts[k], pts[(k % Len(pts)) + 1]) <= res

\* C4: for every closed polygon and every positive target spacing, in the
\* output of increase_circuit_resolution every pair of consecutive points,
\* the wraparound pair last -> first included, is at most the target
\* spacing apart, and the output has at least as many points as the input.
C4_SpacingIncludingWraparound ==
    rpc = "done" =>
        /\ SpacedClosed(points, resolution)
        /\ Len(points) >= Len(circuit)

=============================================================================
